---- MODULE Spec2Model ----
(***************************************************************************)
(* Model of diary/generate_diary.py: a batch generator that turns the      *)
(* text files of entries/ into entry pages, year indexes and a landing     *)
(* page.                                                                   *)
(*                                                                         *)
(* Text is a sequence of one-character strings.  A page is a record of the *)
(* values the fixed HTML template is filled with; a file of the output     *)
(* tree is the sequence of documents written into it.                      *)
(***************************************************************************)
EXTENDS Integers, Sequences, FiniteSets

VARIABLES
    dir_exists,   \* ENTRIES_DIR.exists()
    files,        \* the files of entries/: file name -> raw text
    listing,      \* the order in which the directory enumerates its files
    tree,         \* the output tree under OUTPUT_DIR: path -> file content
    before,       \* the output tree as it was when the current run started
    txt_files,    \* main: txt_files
    all_entries,  \* main: all_entries
    pc,           \* main: the statement about to run
    outcome,      \* how the last run of main ended
    warnings,     \* file name stems named in printed warnings, in order
    generated,    \* paths printed as generated, in order
    runs          \* number of the current run of main

vars == <<dir_exists, files, listing, tree, before, txt_files, all_entries,
          pc, outcome, warnings, generated, runs>>

----------------------------------------------------------------------------
(* Bounds of the model *)

MaxFiles == 4
MaxMixed == 2
MaxRuns == 2
MaxBody == 5

----------------------------------------------------------------------------
(* Text primitives (Python str / list semantics) *)

NL == "\n"

Min(S) == CHOOSE m \in S : \A n \in S : m <= n
Max(S) == CHOOSE m \in S : \A n \in S : m >= n

Rep(c, n) == [i \in 1..n |-> c]

Range(s) == {s[i] : i \in 1..Len(s)}

\* ''.join(ss), halving ss
RECURSIVE Concat(_)
Concat(ss) ==
    IF ss = <<>> THEN <<>>
    ELSE IF Len(ss) = 1 THEN ss[1]
    ELSE Concat(SubSeq(ss, 1, Len(ss) \div 2))
         \o Concat(SubSeq(ss, (Len(ss) \div 2) + 1, Len(ss)))

IsSpace(c) == c \in {" ", "\n", "\t", "\r"}

IsDigit(c) == c \in {"0", "1", "2", "3", "4", "5", "6", "7", "8", "9"}

DigitChars == <<"0", "1", "2", "3", "4", "5", "6", "7", "8", "9">>

DigitVal(c) == (CHOOSE i \in 1..10 : DigitChars[i] = c) - 1

\* str(n) for n >= 0
RECURSIVE IntToText(_)
IntToText(n) ==
    IF n < 10 THEN <<DigitChars[n + 1]>>
    ELSE IntToText(n \div 10) \o <<DigitChars[(n % 10) + 1]>>

\* str.strip()
Strip(s) ==
    LET keep == {i \in 1..Len(s) : ~IsSpace(s[i])}
    IN  IF keep = {} THEN <<>> ELSE SubSeq(s, Min(keep), Max(keep))

\* f.readlines(): every line keeps its terminating newline
RECURSIVE readlines(_)
readlines(text) ==
    IF text = <<>> THEN <<>>
    ELSE LET nl == {i \in 1..Len(text) : text[i] = NL}
         IN  IF nl = {} THEN <<text>>
             ELSE <<SubSeq(text, 1, Min(nl))>>
                  \o readlines(SubSeq(text, Min(nl) + 1, Len(text)))

\* str.split(sep), sep non-empty: leftmost non-overlapping occurrences
RECURSIVE Split(_, _)
Split(s, sep) ==
    LET k == Len(sep)
        at == {i \in 1..(Len(s) - k + 1) : SubSeq(s, i, i + k - 1) = sep}
    IN  IF at = {} THEN <<s>>
        ELSE <<SubSeq(s, 1, Min(at) - 1)>>
             \o Split(SubSeq(s, Min(at) + k, Len(s)), sep)

\* s[:n]
Take(s, n) == SubSeq(s, 1, IF Len(s) < n THEN Len(s) ELSE n)

LowerAlpha ==
    <<"a", "b", "c", "d", "e", "f", "g", "h", "i", "j", "k", "l", "m",
      "n", "o", "p", "q", "r", "s", "t", "u", "v", "w", "x", "y", "z">>

UpperAlpha ==
    <<"A", "B", "C", "D", "E", "F", "G", "H", "I", "J", "K", "L", "M",
      "N", "O", "P", "Q", "R", "S", "T", "U", "V", "W", "X", "Y", "Z">>

ToUpper(c) ==
    IF \E i \in 1..26 : LowerAlpha[i] = c
    THEN UpperAlpha[CHOOSE i \in 1..26 : LowerAlpha[i] = c]
    ELSE c

ToLower(c) ==
    IF \E i \in 1..26 : UpperAlpha[i] = c
    THEN LowerAlpha[CHOOSE i \in 1..26 : UpperAlpha[i] = c]
    ELSE c

\* str.capitalize()
Capitalize(s) ==
    [i \in 1..Len(s) |-> IF i = 1 THEN ToUpper(s[i]) ELSE ToLower(s[i])]

\* sorted(s, key=..., reverse=...): stable, also when reversed.  key[i] is
\* the integer key of s[i].
sorted(s, key, reverse) ==
    LET n == Len(s)
        first(j, i) == IF reverse THEN key[j] > key[i] ELSE key[j] < key[i]
        rank(i) == Cardinality({j \in 1..n :
                       first(j, i) \/ (key[j] = key[i] /\ j < i)}) + 1
    IN  [r \in 1..n |-> s[CHOOSE i \in 1..n : rank(i) = r]]

----------------------------------------------------------------------------
(* datetime.strptime(filename, "%Y-%m-%d") *)

MonthNames ==
    << <<"j", "a", "n", "u", "a", "r", "y">>,
       <<"f", "e", "b", "r", "u", "a", "r", "y">>,
       <<"m", "a", "r", "c", "h">>,
       <<"a", "p", "r", "i", "l">>,
       <<"m", "a", "y">>,
       <<"j", "u", "n", "e">>,
       <<"j", "u", "l", "y">>,
       <<"a", "u", "g", "u", "s", "t">>,
       <<"s", "e", "p", "t", "e", "m", "b", "e", "r">>,
       <<"o", "c", "t", "o", "b", "e", "r">>,
       <<"n", "o", "v", "e", "m", "b", "e", "r">>,
       <<"d", "e", "c", "e", "m", "b", "e", "r">> >>

IsLeap(y) == (y % 4 = 0 /\ y % 100 # 0) \/ y % 400 = 0

DaysInMonth(y, m) ==
    IF m = 2 THEN (IF IsLeap(y) THEN 29 ELSE 28)
    ELSE IF m \in {4, 6, 9, 11} THEN 30 ELSE 31

\* %m is the regular expression 1[0-2]|0[1-9]|[1-9], tried at position i.
\* The result is <<value, next position>>, or <<>> when nothing matches.
MatchMonth(s, i) ==
    LET has(k) == k <= Len(s)
    IN  IF has(i + 1) /\ s[i] = "1" /\ s[i + 1] \in {"0", "1", "2"}
        THEN <<10 + DigitVal(s[i + 1]), i + 2>>
        ELSE IF has(i + 1) /\ s[i] = "0" /\ IsDigit(s[i + 1]) /\ s[i + 1] # "0"
        THEN <<DigitVal(s[i + 1]), i + 2>>
        ELSE IF has(i) /\ IsDigit(s[i]) /\ s[i] # "0"
        THEN <<DigitVal(s[i]), i + 1>>
        ELSE <<>>

\* %d is the regular expression 3[0-1]|[1-2]\d|0[1-9]|[1-9]| [1-9]
MatchDay(s, i) ==
    LET has(k) == k <= Len(s)
    IN  IF has(i + 1) /\ s[i] = "3" /\ s[i + 1] \in {"0", "1"}
        THEN <<30 + DigitVal(s[i + 1]), i + 2>>
        ELSE IF has(i + 1) /\ s[i] \in {"1", "2"} /\ IsDigit(s[i + 1])
        THEN <<10 * DigitVal(s[i]) + DigitVal(s[i + 1]), i + 2>>
        ELSE IF has(i + 1) /\ s[i] = "0" /\ IsDigit(s[i + 1]) /\ s[i + 1] # "0"
        THEN <<DigitVal(s[i + 1]), i + 2>>
        ELSE IF has(i) /\ IsDigit(s[i]) /\ s[i] # "0"
        THEN <<DigitVal(s[i]), i + 1>>
        ELSE IF has(i + 1) /\ s[i] = " " /\ IsDigit(s[i + 1]) /\ s[i + 1] # "0"
        THEN <<DigitVal(s[i + 1]), i + 2>>
        ELSE <<>>

\* <<date>> for a stem the format accepts, <<>> where strptime raises
\* ValueError.  %Y is \d\d\d\d; text left over after %d is an error, and
\* so is a date the calendar does not have.
strptime(s) ==
    IF ~(Len(s) >= 5 /\ (\A i \in 1..4 : IsDigit(s[i])) /\ s[5] = "-")
    THEN <<>>
    ELSE LET y == 1000 * DigitVal(s[1]) + 100 * DigitVal(s[2])
                  + 10 * DigitVal(s[3]) + DigitVal(s[4])
             m == MatchMonth(s, 6)
         IN  IF m = <<>> THEN <<>>
             ELSE IF ~(m[2] <= Len(s) /\ s[m[2]] = "-") THEN <<>>
             ELSE LET d == MatchDay(s, m[2] + 1)
                  IN  IF d = <<>> THEN <<>>
                      ELSE IF d[2] # Len(s) + 1 THEN <<>>
                      ELSE IF y < 1 \/ d[1] > DaysInMonth(y, m[1]) THEN <<>>
                      ELSE <<[year |-> y, month |-> m[1], day |-> d[1]]>>

\* The order of two datetime values, as an integer key
DateOrd(d) == d.year * 372 + (d.month - 1) * 31 + d.day

----------------------------------------------------------------------------
(* parse_entry_file *)

DefaultTitle ==
    <<"D", "i", "a", "r", "y", " ", "E", "n", "t", "r", "y">>

\* Variant of has_title: the second line is tested without strip()
has_title_unstripped(lines) == Len(lines) > 1 /\ lines[2] # <<>>

\* line 41: a second line exists and is not blank
has_title(lines) == Len(lines) > 1 /\ Strip(lines[2]) # <<>>

\* The entry read from the file called filepath holding text.  entry is
\* <<the entry>>, or <<>> where the function returns None; printed is the
\* stem named in the warning, if one is printed.
parse_entry_file(filepath, text) ==
    LET lines == readlines(text)
        date_str == Strip(lines[1])
        titled == has_title(lines)
        title == IF titled THEN Strip(lines[2]) ELSE DefaultTitle
        content_start == IF titled THEN 2 ELSE 1
        content == Strip(Concat(SubSeq(lines, content_start + 1, Len(lines))))
        filename == filepath.stem
        date_obj == strptime(filename)
    IN  IF Len(lines) < 1 THEN [entry |-> <<>>, printed |-> <<>>]
        ELSE IF date_obj = <<>> THEN [entry |-> <<>>, printed |-> <<filename>>]
        ELSE [entry |-> << [date_str |-> date_str,
                            title |-> title,
                            content |-> content,
                            year |-> date_obj[1].year,
                            month |-> date_obj[1].month,
                            month_name |-> MonthNames[date_obj[1].month],
                            day |-> date_obj[1].day,
                            filename |-> filename,
                            date_obj |-> date_obj[1]] >>,
              printed |-> <<>>]

----------------------------------------------------------------------------
(* format_content_to_html *)

\* para.replace('\n', '<br />\n')
ReplaceNewlines(para) ==
    Concat([i \in 1..Len(para) |->
               IF para[i] = NL THEN <<"<br />", NL>> ELSE <<para[i]>>])

\* '\n\n'.join(parts)
RECURSIVE JoinBlank(_)
JoinBlank(parts) ==
    IF parts = <<>> THEN <<>>
    ELSE IF Len(parts) = 1 THEN parts[1]
    ELSE parts[1] \o <<NL, NL>> \o JoinBlank(Tail(parts))

\* The markup is a sequence of characters and of the tags "<p>", "</p>"
\* and "<br />".
format_content_to_html(content) ==
    LET paragraphs == Split(content, <<NL, NL>>)
        stripped == [i \in 1..Len(paragraphs) |-> Strip(paragraphs[i])]
        NonEmpty(para) == para # <<>>
        kept == SelectSeq(stripped, NonEmpty)
        html_parts == [i \in 1..Len(kept) |->
                          <<"<p>">> \o ReplaceNewlines(kept[i]) \o <<"</p>">>]
    IN  JoinBlank(html_parts)

----------------------------------------------------------------------------
(* The output tree *)

DotHtml == <<".", "h", "t", "m", "l">>

\* Variant of WriteFile: the file is opened with 'a' and html is added to
\* what it holds
AppendFile(t, output_file, html) ==
    [p \in DOMAIN t \cup {output_file} |->
        IF p = output_file
        THEN (IF p \in DOMAIN t THEN t[p] ELSE <<>>) \o <<html>>
        ELSE t[p]]

\* open(output_file, 'w') and f.write(html): the file holds html alone
WriteFile(t, output_file, html) ==
    [p \in DOMAIN t \cup {output_file} |->
        IF p = output_file THEN <<html>> ELSE t[p]]

Pad2(n) == IF n < 10 THEN <<"0">> \o IntToText(n) ELSE IntToText(n)

\* Variant of entry_output_file: the file is named after the parsed date,
\* date_obj.strftime("%Y-%m-%d"), not after the stem
entry_output_file_by_date(entry) ==
    <<IntToText(entry.year), entry.month_name,
      IntToText(entry.year) \o <<"-">> \o Pad2(entry.month) \o <<"-">>
          \o Pad2(entry.day) \o DotHtml>>

\* generate_entry_page: OUTPUT_DIR / str(year) / month_name / f"{filename}.html"
entry_output_file(entry) ==
    <<IntToText(entry.year), entry.month_name, entry.filename \o DotHtml>>

\* generate_entry_page: the values the entry template is filled with
entry_html(entry) ==
    [kind |-> "entry",
     date_str |-> entry.date_str,
     year |-> entry.year,
     title |-> entry.title,
     content_html |-> format_content_to_html(entry.content)]

\* generate_year_index: OUTPUT_DIR / str(year) / f"{year}-index.html"
year_index_file(year) ==
    <<IntToText(year),
      IntToText(year) \o <<"-", "i", "n", "d", "e", "x">> \o DotHtml>>

\* generate_landing_page: OUTPUT_DIR / "diaryLanding.html"
landing_file ==
    << <<"d", "i", "a", "r", "y", "L", "a", "n", "d", "i", "n", "g">>
       \o DotHtml >>

----------------------------------------------------------------------------
(* generate_year_index and generate_landing_page *)

YearPreviewLimit == 100
LandingPreviewLimit == 80

Ellipsis == <<".", ".", ".">>

\* Variant of preview: "..." is added when the first line is longer than
\* the limit
preview_by_first_line(content, limit) ==
    Take(Split(content, <<NL>>)[1], limit)
    \o (IF Len(Split(content, <<NL>>)[1]) > limit THEN Ellipsis ELSE <<>>)

\* entry['content'].split('\n')[0][:limit], and "..." after it when
\* len(entry['content']) > limit
preview(content, limit) ==
    Take(Split(content, <<NL>>)[1], limit)
    \o (IF Len(content) > limit THEN Ellipsis ELSE <<>>)

\* sorted(keys, reverse=True) for a set of distinct integer keys
sorted_keys_desc(S) ==
    [r \in 1..Cardinality(S) |->
        CHOOSE x \in S : Cardinality({y \in S : y > x}) = r - 1]

\* The keys of a defaultdict filled from entries, in insertion order
RECURSIVE dict_keys(_)
dict_keys(ks) ==
    IF ks = <<>> THEN <<>>
    ELSE LET rest == dict_keys(SubSeq(ks, 1, Len(ks) - 1))
         IN  IF ks[Len(ks)] \in Range(rest) THEN rest
             ELSE Append(rest, ks[Len(ks)])

\* years[year] / months[month]: the entries appended under one key
group_year(entries, year) ==
    LET InYear(e) == e.year = year IN SelectSeq(entries, InYear)

group_month(entries, month) ==
    LET InMonth(e) == e.month = month IN SelectSeq(entries, InMonth)

\* Variant of sorted_months: sorted(months.keys()) without reverse=True
sorted_months_ascending(entries) ==
    LET S == {entries[i].month : i \in 1..Len(entries)}
    IN  [r \in 1..Cardinality(S) |->
            CHOOSE x \in S : Cardinality({y \in S : y < x}) = r - 1]

\* line 171
sorted_months(entries) ==
    sorted_keys_desc({entries[i].month : i \in 1..Len(entries)})

\* line 176
month_entries(entries, month_num) ==
    LET group == group_month(entries, month_num)
    IN  sorted(group, [i \in 1..Len(group) |-> group[i].day], TRUE)

\* lines 181-188: one list item of a year index
year_index_item(entry) ==
    [href |-> entry.month_name \o <<"/">> \o entry.filename \o DotHtml,
     date_str |-> entry.date_str,
     preview |-> preview(entry.content, YearPreviewLimit)]

\* generate_year_index: the values the year template is filled with
year_index_html(year, entries) ==
    LET ms == sorted_months(entries)
    IN  [kind |-> "year_index",
         year |-> year,
         month_sections |->
            [k \in 1..Len(ms) |->
                LET me == month_entries(entries, ms[k])
                IN  [month_name |-> Capitalize(me[1].month_name),
                     entries_html |->
                        [i \in 1..Len(me) |-> year_index_item(me[i])]]]]

\* line 272
sorted_years(entries) ==
    sorted_keys_desc({entries[i].year : i \in 1..Len(entries)})

\* Variant of year_entries: sorted by date without reverse=True
year_entries_oldest_first(entries, year) ==
    LET group == group_year(entries, year)
    IN  sorted(group, [i \in 1..Len(group) |-> DateOrd(group[i].date_obj)], FALSE)

\* line 277
year_entries(entries, year) ==
    LET group == group_year(entries, year)
    IN  sorted(group, [i \in 1..Len(group) |-> DateOrd(group[i].date_obj)], TRUE)

\* line 280: year_entries[:3]
recent_entries(ye) == Take(ye, 3)

\* lines 284-290: one list item of the landing page
landing_item(entry) ==
    [href |-> IntToText(entry.year) \o <<"/">> \o entry.month_name
              \o <<"/">> \o entry.filename \o DotHtml,
     date_str |-> entry.date_str,
     preview |-> preview(entry.content, LandingPreviewLimit)]

\* generate_landing_page: the values the landing template is filled with.
\* hr tells whether the section ends with the separator (lines 302-307).
landing_html(entries) ==
    LET ys == sorted_years(entries)
    IN  [kind |-> "landing",
         year_sections |->
            [k \in 1..Len(ys) |->
                LET re == recent_entries(year_entries(entries, ys[k]))
                IN  [year |-> ys[k],
                     index_href |-> IntToText(ys[k]) \o <<"/">>
                                    \o year_index_file(ys[k])[2],
                     entries_html |->
                        [i \in 1..Len(re) |-> landing_item(re[i])],
                     hr |-> k # Len(ys)]]]

----------------------------------------------------------------------------
(* The entries directory *)

\* ENTRIES_DIR.glob("*.txt") over the directory's enumeration
IsTxt(name) == name.ext = "txt"

glob(names) == SelectSeq(names, IsTxt)

\* The files a modelled directory is made of, each with its text
Corpus ==
    << [name |-> [stem |-> <<"2", "0", "2", "4", "-", "0", "1", "-", "1", "0">>, ext |-> "txt"],
        text |-> <<"d", "1", "\n", "t", "1", "\n", "a", "a", "\n", "b", "\n", "\n", "c", "\n">>],
       [name |-> [stem |-> <<"2", "0", "2", "4", "-", "0", "3", "-", "0", "2">>, ext |-> "txt"],
        text |-> <<"d", "2", "\n">>],
       [name |-> [stem |-> <<"2", "0", "2", "3", "-", "1", "2", "-", "2", "5">>, ext |-> "txt"],
        text |-> <<"d", "3", "\n", " ", "\n", "x", "y", "\n">>],
       [name |-> [stem |-> <<"2", "0", "2", "4", "-", "0", "3", "-", "1", "5">>, ext |-> "txt"],
        text |-> <<"d", "4", "\n", "t", "4", "\n", "p", "\n", " ", "\n", "q", "\n", "\n", "\n", "r">>],
       [name |-> [stem |-> <<"2", "0", "2", "4", "-", "3", "-", "2">>, ext |-> "txt"],
        text |-> <<"d", "5", "\n", "t", "5", "\n", "z">>],
       [name |-> [stem |-> <<"2", "0", "2", "5", "-", "1", "3", "-", "0", "1">>, ext |-> "txt"],
        text |-> <<"d", "6", "\n", "t", "6", "\n", "q", "\n">>],
       [name |-> [stem |-> <<"2", "0", "2", "4", "-", "1", "2", "-", "3", "1">>, ext |-> "md"],
        text |-> <<"d", "7", "\n", "t", "7", "\n", "q", "\n">>],
       [name |-> [stem |-> <<"2", "0", "2", "4", "-", "0", "2", "-", "2", "9">>, ext |-> "txt"],
        text |-> <<>>] >>

CorpusNames == {Corpus[i].name : i \in 1..Len(Corpus)}

CorpusText(name) == Corpus[CHOOSE i \in 1..Len(Corpus) : Corpus[i].name = name].text

\* Every order in which a directory of at most n of the files S can be listed
Orders(S, n) ==
    UNION {{l \in [1..k -> S] :
               \A i, j \in 1..k : i # j => l[i] # l[j]} : k \in 0..n}

\* The listings of the modelled directories: at most MaxFiles .txt files,
\* or at most MaxMixed files of any kind
Listings ==
    Orders({n \in CorpusNames : IsTxt(n)}, MaxFiles)
    \cup Orders(CorpusNames, MaxMixed)

Reorderings(l) ==
    {m \in [1..Len(l) -> Range(l)] : Range(m) = Range(l)}

\* The texts of the single-file directories: a head of up to two lines
\* followed by every body of at most MaxBody characters, and texts whose
\* content is near or beyond the preview limits
TextName == [stem |-> <<"2", "0", "2", "4", "-", "0", "1", "-", "1", "0">>, ext |-> "txt"]

BodyAlphabet == {"a", " ", NL}

Bodies == UNION {[1..k -> BodyAlphabet] : k \in 0..MaxBody}

Heads ==
    { <<>>, <<"d">>, <<"d", NL>>, <<" ", "d", " ", NL, " ", "t", " ", NL>>,
      <<"d", NL, NL>>, <<"d", NL, " ", NL>> }

LongTexts ==
    {<<"d", NL, "t", NL>> \o Rep("a", k) \o <<NL>> \o Rep("b", m) :
        k \in {0, 40, 79, 80, 81, 99, 100, 101},
        m \in {0, 19, 20, 39, 40, 59, 60, 109}}

Texts == {h \o b : h \in Heads, b \in Bodies} \cup LongTexts

----------------------------------------------------------------------------
(* main *)

\* Variant of no_valid_entries: the check for an empty list is missing
never_stops(entries) == FALSE

\* line 483: not all_entries
no_valid_entries(entries) == entries = <<>>

\* lines 497-499: the keys of years, in insertion order
year_keys(entries) == dict_keys([i \in 1..Len(entries) |-> entries[i].year])

\* lines 459-474: the directory check and the search for .txt files
Scan ==
    /\ pc = "scan"
    /\ IF ~dir_exists
       THEN /\ pc' = "done"
            /\ outcome' = "no_dir"
            /\ UNCHANGED txt_files
       ELSE IF glob(listing) = <<>>
       THEN /\ pc' = "done"
            /\ outcome' = "no_txt"
            /\ UNCHANGED txt_files
       ELSE /\ txt_files' = glob(listing)
                    /\ pc' = "parse"
            /\ UNCHANGED outcome
    /\ UNCHANGED <<dir_exists, files, listing, tree, before, all_entries,
                   warnings, generated, runs>>

\* lines 477-481: the parsing loop over names, reading from the files fs
RECURSIVE load_entries(_, _)
load_entries(names, fs) ==
    IF names = <<>> THEN [entries |-> <<>>, printed |-> <<>>]
    ELSE LET n == Len(names)
             rest == load_entries(SubSeq(names, 1, n - 1), fs)
             r == parse_entry_file(names[n], fs[names[n]])
         IN  [entries |-> rest.entries \o r.entry,
              printed |-> rest.printed \o r.printed]

\* lines 493-494: generate_entry_page for every entry, in order
RECURSIVE write_entry_pages(_, _)
write_entry_pages(t, entries) ==
    IF entries = <<>> THEN t
    ELSE write_entry_pages(
             WriteFile(t, entry_output_file(Head(entries)), entry_html(Head(entries))),
             Tail(entries))

\* lines 501-502: generate_year_index for every year of keys, in order
RECURSIVE write_year_indexes(_, _, _)
write_year_indexes(t, entries, keys) ==
    IF keys = <<>> THEN t
    ELSE write_year_indexes(
             WriteFile(t, year_index_file(Head(keys)),
                       year_index_html(Head(keys), group_year(entries, Head(keys)))),
             entries, Tail(keys))

\* The output tree a run starts from: what an earlier run has generated
\* from a directory that then held one entry, since removed
PriorName == [stem |-> <<"2", "0", "2", "2", "-", "0", "5", "-", "0", "5">>, ext |-> "txt"]

PriorText == <<"d", "0", "\n", "t", "0", "\n", "o", "\n">>

PriorTree ==
    LET es == parse_entry_file(PriorName, PriorText).entry
    IN  WriteFile(write_year_indexes(write_entry_pages(<<>>, es), es, year_keys(es)),
                  landing_file, landing_html(es))

InitRun ==
    /\ tree = PriorTree
    /\ before = PriorTree
    /\ txt_files = <<>>
    /\ all_entries = <<>>
    /\ pc = "scan"
    /\ outcome = "running"
    /\ warnings = <<>>
    /\ generated = <<>>
    /\ runs = 1

\* A directory of corpus files, or no directory at all
Init ==
    /\ dir_exists \in BOOLEAN
    /\ listing \in (IF dir_exists THEN Listings ELSE {<<>>})
    /\ files = [n \in Range(listing) |-> CorpusText(n)]
    /\ InitRun

\* A directory holding one file with a well-formed name
InitText ==
    /\ dir_exists = TRUE
    /\ listing = <<TextName>>
    /\ \E t \in Texts : files = [n \in {TextName} |-> t]
    /\ InitRun

\* lines 476-481: parse all entries
LoadEntries ==
    /\ pc = "parse"
    /\ all_entries' = load_entries(txt_files, files).entries
    /\ warnings' = warnings \o load_entries(txt_files, files).printed
    /\ pc' = "check"
    /\ UNCHANGED <<dir_exists, files, listing, tree, before, txt_files,
                   outcome, generated, runs>>

\* lines 483-488: stop without entries, or sort them by date
SortEntries ==
    /\ pc = "check"
    /\ IF no_valid_entries(all_entries)
       THEN /\ pc' = "done"
            /\ outcome' = "no_valid"
            /\ UNCHANGED all_entries
       ELSE /\ all_entries' =
                 sorted(all_entries,
                        [i \in 1..Len(all_entries) |->
                            DateOrd(all_entries[i].date_obj)],
                        FALSE)
            /\ pc' = "entries"
            /\ UNCHANGED outcome
    /\ UNCHANGED <<dir_exists, files, listing, tree, before, txt_files,
                   warnings, generated, runs>>

\* lines 492-494: generate individual entry pages
GenerateEntryPages ==
    /\ pc = "entries"
    /\ tree' = write_entry_pages(tree, all_entries)
    /\ generated' = generated
           \o [i \in 1..Len(all_entries) |-> entry_output_file(all_entries[i])]
    /\ pc' = "years"
    /\ UNCHANGED <<dir_exists, files, listing, before, txt_files, all_entries,
                   outcome, warnings, runs>>

\* lines 496-502: group by year and generate yearly indexes
GenerateYearIndexes ==
    /\ pc = "years"
    /\ tree' = write_year_indexes(tree, all_entries, year_keys(all_entries))
    /\ generated' = generated
           \o [i \in 1..Len(year_keys(all_entries)) |->
                  year_index_file(year_keys(all_entries)[i])]
    /\ pc' = "landing"
    /\ UNCHANGED <<dir_exists, files, listing, before, txt_files, all_entries,
                   outcome, warnings, runs>>

\* lines 505-507: generate_landing_page and the end of the run
GenerateLandingPage ==
    /\ pc = "landing"
    /\ tree' = WriteFile(tree, landing_file, landing_html(all_entries))
    /\ generated' = Append(generated, landing_file)
    /\ pc' = "done"
    /\ outcome' = "generated"
    /\ UNCHANGED <<dir_exists, files, listing, before, txt_files, all_entries,
                   warnings, runs>>

\* The script is started again on the same directory
StartRun ==
    /\ before' = tree
    /\ txt_files' = <<>>
    /\ all_entries' = <<>>
    /\ pc' = "scan"
    /\ outcome' = "running"
    /\ warnings' = <<>>
    /\ generated' = <<>>
    /\ runs' = runs + 1
    /\ UNCHANGED <<dir_exists, files, tree>>

Rerun ==
    /\ pc = "done"
    /\ runs < MaxRuns
    /\ StartRun
    /\ UNCHANGED listing

\* The script is started again on the same files, which the directory now
\* enumerates in some other order
RerunRelisted ==
    /\ pc = "done"
    /\ runs < MaxRuns
    /\ StartRun
    /\ listing' \in Reorderings(listing)

Next ==
    \/ Scan
    \/ LoadEntries
    \/ SortEntries
    \/ GenerateEntryPages
    \/ GenerateYearIndexes
    \/ GenerateLandingPage
    \/ Rerun

NextRelisted ==
    \/ Scan
    \/ LoadEntries
    \/ SortEntries
    \/ GenerateEntryPages
    \/ GenerateYearIndexes
    \/ GenerateLandingPage
    \/ RerunRelisted

Spec == Init /\ [][Next]_vars

SpecText == InitText /\ [][Next]_vars

SpecRelisted == Init /\ [][NextRelisted]_vars

----------------------------------------------------------------------------
(* Vocabulary of the properties *)

Generated == pc = "done" /\ outcome = "generated"

Entries == Range(all_entries)

YearsPresent == {e.year : e \in Entries}

EntriesOfYear(y) == {e \in Entries : e.year = y}

DateGE(a, b) ==
    \/ a.year > b.year
    \/ a.year = b.year /\ a.month > b.month
    \/ a.year = b.year /\ a.month = b.month /\ a.day >= b.day

\* The longest prefix of s that holds no newline
FirstLine(s) ==
    IF \E i \in 1..Len(s) : s[i] = NL
    THEN SubSeq(s, 1, (CHOOSE i \in 1..Len(s) :
                          s[i] = NL /\ \A j \in 1..(i - 1) : s[j] # NL) - 1)
    ELSE s

\* What is left of text after its first k lines
AfterLines(text, k) ==
    LET nls == {i \in 1..Len(text) : text[i] = NL}
        upto(i) == Cardinality({j \in nls : j <= i})
    IN  IF k = 0 THEN text
        ELSE IF Cardinality(nls) < k THEN <<>>
        ELSE SubSeq(text, (CHOOSE i \in nls : upto(i) = k) + 1, Len(text))

LineOf(text, k) == FirstLine(AfterLines(text, k - 1))

NumLines(text) ==
    Cardinality({i \in 1..Len(text) : text[i] = NL})
    + (IF text # <<>> /\ text[Len(text)] # NL THEN 1 ELSE 0)

RECURSIVE TrimLeft(_)
TrimLeft(s) ==
    IF s # <<>> /\ IsSpace(Head(s)) THEN TrimLeft(Tail(s)) ELSE s

RECURSIVE TrimRight(_)
TrimRight(s) ==
    IF s # <<>> /\ IsSpace(s[Len(s)]) THEN TrimRight(SubSeq(s, 1, Len(s) - 1))
    ELSE s

Trim(s) == TrimRight(TrimLeft(s))

RECURSIVE TextToInt(_)
TextToInt(t) ==
    IF t = <<>> THEN 0
    ELSE 10 * TextToInt(SubSeq(t, 1, Len(t) - 1)) + DigitVal(t[Len(t)])

\* <year>/<monthName>/<sourceId>.html, read off the stem alone
PathOfStem(stem) ==
    LET parts == Split(stem, <<"-">>)
    IN  <<IntToText(TextToInt(parts[1])),
          MonthNames[TextToInt(parts[2])],
          stem \o <<".", "h", "t", "m", "l">> >>

\* A strict YYYY-MM-DD stem naming a real date
StrictStem(stem) ==
    /\ Len(stem) = 10
    /\ \A i \in {1, 2, 3, 4, 6, 7, 9, 10} : IsDigit(stem[i])
    /\ stem[5] = "-" /\ stem[8] = "-"
    /\ LET y == TextToInt(SubSeq(stem, 1, 4))
           m == TextToInt(SubSeq(stem, 6, 7))
           d == TextToInt(SubSeq(stem, 9, 10))
       IN  y >= 1 /\ m \in 1..12 /\ d >= 1 /\ d <= DaysInMonth(y, m)

YearIndexPage(y) == tree[year_index_file(y)][1]

LandingPage == tree[landing_file][1]

\* The list items of a year index, over all its month sections
ItemsOf(page) ==
    Concat([k \in 1..Len(page.month_sections) |->
               page.month_sections[k].entries_html])

\* The entry a list item of a year index links to
YearItemEntry(item) ==
    CHOOSE e \in Entries :
        item.href = e.month_name \o <<"/">> \o e.filename \o <<".", "h", "t", "m", "l">>

\* The entry a list item of the landing page links to
LandingItemEntry(item) ==
    CHOOSE e \in Entries :
        item.href = IntToText(e.year) \o <<"/">> \o e.month_name \o <<"/">>
                    \o e.filename \o <<".", "h", "t", "m", "l">>

MonthNumber(heading) ==
    CHOOSE m \in 1..12 : Capitalize(MonthNames[m]) = heading

\* The preview of content under limit L
ExpectedPreview(content, L) ==
    LET fl == FirstLine(content)
        cut == IF Len(fl) > L THEN SubSeq(fl, 1, L) ELSE fl
    IN  IF Len(content) > L THEN cut \o <<".", ".", ".">> ELSE cut

\* The landing page has one section per year with entries, newest first
LandingSectionsByYear ==
    LET secs == LandingPage.year_sections
    IN  /\ {secs[k].year : k \in 1..Len(secs)} = YearsPresent
        /\ \A k \in 1..(Len(secs) - 1) : secs[k].year > secs[k + 1].year

ListedOn(sec) ==
    [i \in 1..Len(sec.entries_html) |-> LandingItemEntry(sec.entries_html[i])]

Min3(n) == IF n < 3 THEN n ELSE 3

\* The number of paragraph elements of a rendered content
ParagraphBlocks(html) == Cardinality({i \in 1..Len(html) : html[i] = "<p>"})

\* The number of maximal runs of lines that are not blank, a line being
\* blank when nothing is left of it after trimming
Segments(content) ==
    LET ls == Split(content, <<NL>>)
        Blank(i) == Trim(ls[i]) = <<>>
    IN  Cardinality({i \in 1..Len(ls) : ~Blank(i) /\ (i = 1 \/ Blank(i - 1))})

----------------------------------------------------------------------------
(* Properties *)

\* C1: after a run that generates, every accepted entry has its page at
\* <year>/<monthName>/<sourceId>.html, with year and month name read from
\* the stem that is the sourceId; distinct accepted files have distinct
\* page paths, and no page path is a year-index path or the landing path.
C1_EntryPagePaths ==
    Generated =>
        LET n == Len(all_entries)
        IN  /\ Len(generated) >= n
            /\ \A i \in 1..n :
                 LET p == PathOfStem(all_entries[i].filename)
                 IN  /\ generated[i] = p
                     /\ p \in DOMAIN tree
                     /\ tree[p] = <<entry_html(all_entries[i])>>
                     /\ p # landing_file
                     /\ \A y \in YearsPresent : p # year_index_file(y)
                     /\ \A j \in (n + 1)..Len(generated) : generated[j] # p
            /\ \A i, j \in 1..n : i # j => generated[i] # generated[j]

\* C1 witness: a run has generated pages for two files of the same date
C1_Witness ==
    /\ Generated
    /\ \E i, j \in 1..Len(all_entries) :
          i # j /\ all_entries[i].date_obj = all_entries[j].date_obj

\* C2: a file yields an entry only if its stem is a strict YYYY-MM-DD date;
\* every other .txt file is skipped with a warning naming it and yields
\* nothing, while every file with a strict stem (and a first line) is loaded.
C2_OnlyStrictStems ==
    (pc = "done" /\ outcome \in {"generated", "no_valid"}) =>
        \A name \in Range(txt_files) :
            IF StrictStem(name.stem)
            THEN files[name] # <<>> =>
                     \E e \in Entries : e.filename = name.stem
            ELSE /\ name.stem \in Range(warnings)
                 /\ \A e \in Entries : e.filename # name.stem

\* C3: with the entries directory missing, or holding no .txt file, or no
\* file that parses into an entry, main ends leaving the output tree as
\* it found it.
C3_NoEntriesNoOutput ==
    (/\ pc = "done"
     /\ \/ ~dir_exists
        \/ \A name \in DOMAIN files : ~IsTxt(name)
        \/ \A name \in DOMAIN files :
              IsTxt(name) => parse_entry_file(name, files[name]).entry = <<>>)
    => (tree = before /\ generated = <<>> /\ outcome # "generated")

\* C3 witness: a run over .txt files of which none parses has ended, the
\* output tree still holding what an earlier run generated
C3_Witness ==
    /\ pc = "done"
    /\ outcome = "no_valid"
    /\ Len(txt_files) >= 2
    /\ landing_file \in DOMAIN tree

\* C4: a second run on the unchanged directory leaves the output tree as
\* the first run left it: the same files with the same content.
C4_Idempotent == (pc = "done" /\ runs >= 2) => tree = before

\* C4 witness: a second run has generated pages for several entries
C4_Witness ==
    /\ Generated
    /\ runs = 2
    /\ Len(all_entries) >= 3

\* C5: the index of year Y lists exactly the accepted entries of Y, each
\* once; its month sections come in strictly descending month number and
\* the entries of a section in descending day order.
C5_YearIndexOrder ==
    Generated =>
        \A y \in YearsPresent :
            LET secs == YearIndexPage(y).month_sections
                items == ItemsOf(YearIndexPage(y))
            IN  /\ Len(items) = Cardinality(EntriesOfYear(y))
                /\ \A e \in EntriesOfYear(y) :
                      \E k \in 1..Len(items) : YearItemEntry(items[k]) = e
                /\ \A k \in 1..(Len(secs) - 1) :
                      MonthNumber(secs[k].month_name)
                          > MonthNumber(secs[k + 1].month_name)
                /\ \A k \in 1..Len(secs) :
                      \A i \in 1..Len(secs[k].entries_html) :
                          LET e == YearItemEntry(secs[k].entries_html[i])
                          IN  /\ e.month = MonthNumber(secs[k].month_name)
                              /\ i > 1 =>
                                    YearItemEntry(secs[k].entries_html[i - 1]).day
                                        >= e.day

\* C5 witness: a generated year index has two month sections, one of them
\* listing entries of different days
C5_Witness ==
    /\ Generated
    /\ \E y \in YearsPresent :
          LET secs == YearIndexPage(y).month_sections
          IN  /\ Len(secs) >= 2
              /\ \E k \in 1..Len(secs) :
                    /\ Len(secs[k].entries_html) >= 2
                    /\ YearItemEntry(secs[k].entries_html[1]).day
                          > YearItemEntry(secs[k].entries_html[2]).day

\* C6 as stated: one landing section per year with entries, years strictly
\* descending; a year's section lists min(3, n) entries, which are the n
\* most recent of the year's n entries, in descending date order.
C6_AsStated ==
    Generated =>
        /\ LandingSectionsByYear
        /\ \A k \in 1..Len(LandingPage.year_sections) :
              LET sec == LandingPage.year_sections[k]
                  listed == ListedOn(sec)
              IN  /\ Len(listed) = Min3(Cardinality(EntriesOfYear(sec.year)))
                  /\ Range(listed) = EntriesOfYear(sec.year)
                  /\ \A i \in 1..(Len(listed) - 1) :
                        DateGE(listed[i].date_obj, listed[i + 1].date_obj)

\* C6 amended: one landing section per year with entries, years strictly
\* descending; a year's section lists min(3, n) entries, which are the
\* min(3, n) most recent of the year, in descending date order.
C6_RecentEntries ==
    Generated =>
        /\ LandingSectionsByYear
        /\ \A k \in 1..Len(LandingPage.year_sections) :
              LET sec == LandingPage.year_sections[k]
                  listed == ListedOn(sec)
              IN  /\ Len(listed) = Min3(Cardinality(EntriesOfYear(sec.year)))
                  /\ Range(listed) \subseteq EntriesOfYear(sec.year)
                  /\ Cardinality(Range(listed)) = Len(listed)
                  /\ \A i \in 1..(Len(listed) - 1) :
                        DateGE(listed[i].date_obj, listed[i + 1].date_obj)
                  /\ \A e \in EntriesOfYear(sec.year) \ Range(listed) :
                        \A l \in Range(listed) : DateGE(l.date_obj, e.date_obj)

\* C6 witness: the landing page has a section of a year with more than
\* three entries
C6_Witness ==
    /\ Generated
    /\ \E k \in 1..Len(LandingPage.year_sections) :
          Cardinality(EntriesOfYear(LandingPage.year_sections[k].year)) > 3

\* C7: the preview of an entry listed in a year index (limit 100) or on the
\* landing page (limit 80) is the first line of its content cut to the
\* limit, followed by "..." exactly when the whole content is longer than
\* the limit.
C7_Preview ==
    Generated =>
        /\ \A y \in YearsPresent :
              \A item \in Range(ItemsOf(YearIndexPage(y))) :
                  item.preview =
                      ExpectedPreview(YearItemEntry(item).content, 100)
        /\ \A k \in 1..Len(LandingPage.year_sections) :
              \A item \in Range(LandingPage.year_sections[k].entries_html) :
                  item.preview =
                      ExpectedPreview(LandingItemEntry(item).content, 80)

\* C7 witness: an entry with a first content line of 40 characters and 150
\* characters of content is listed with the ellipsis after those 40
C7_Witness ==
    /\ Generated
    /\ \E e \in Entries :
          /\ Len(FirstLine(e.content)) = 40
          /\ Len(e.content) = 150
          /\ \E item \in Range(ItemsOf(YearIndexPage(e.year))) :
                /\ YearItemEntry(item) = e
                /\ item.preview = FirstLine(e.content) \o <<".", ".", ".">>

\* C8: a file without lines yields no entry.  Otherwise, if line 2 exists
\* and is not blank after trimming, the title is line 2 trimmed and the
\* content is lines 3 onward; else the title is "Diary Entry" and the
\* content is lines 2 onward; the content is trimmed at both ends.
C8_TitleAndContent ==
    pc = "done" =>
        LET text == files[TextName]
            line2 == Trim(LineOf(text, 2))
        IN  IF NumLines(text) = 0 THEN all_entries = <<>>
            ELSE /\ Len(all_entries) = 1
                 /\ IF NumLines(text) >= 2 /\ line2 # <<>>
                    THEN /\ all_entries[1].title = line2
                         /\ all_entries[1].content = Trim(AfterLines(text, 2))
                    ELSE /\ all_entries[1].title =
                               <<"D", "i", "a", "r", "y", " ",
                                 "E", "n", "t", "r", "y">>
                         /\ all_entries[1].content = Trim(AfterLines(text, 1))

\* C8 witness: a file whose second line holds only white space has given
\* an entry with the default title and a content
C8_Witness ==
    /\ pc = "done"
    /\ Len(all_entries) = 1
    /\ NumLines(files[TextName]) >= 2
    /\ LineOf(files[TextName], 2) # <<>>
    /\ Trim(LineOf(files[TextName], 2)) = <<>>
    /\ all_entries[1].title = DefaultTitle
    /\ all_entries[1].content # <<>>

\* C9: the rendered entry page has exactly as many paragraph blocks as the
\* content has non-empty segments delimited by blank lines, a blank line
\* being a line that is empty after trimming.
C9_ParagraphBlocks ==
    Generated =>
        \A e \in Entries :
            ParagraphBlocks(tree[PathOfStem(e.filename)][1].content_html)
                = Segments(e.content)

\* C10: for a fixed set of source files the content of every generated
\* file is the same whatever the order in which the directory lists them.
C10_ListingOrderIrrelevant ==
    (pc = "done" /\ runs >= 2) =>
        /\ DOMAIN tree = DOMAIN before
        /\ \A p \in DOMAIN tree : tree[p] = before[p]

====
